---- MODULE Spec2Model ----
(***************************************************************************)
(* Model of the process-wise branch of GET in                              *)
(* src/app/api/reports/download/route.ts: grouping of the fetched jobs,    *)
(* the ON/OFF pairing loop, the leftover loop, the merge of the rows and   *)
(* the rows written to the worksheet.                                      *)
(*                                                                         *)
(* JavaScript strings are sequences of one-character strings, instants are *)
(* integers (milliseconds since the epoch), arrays are sequences (the      *)
(* code's 0-based index i is position i + 1), and an object used as an     *)
(* insertion-ordered map is a sequence of [key, value] records.            *)
(***************************************************************************)
EXTENDS Integers, Sequences, FiniteSets

\* ------------------------------------------------------------------ bounds
MaxJobs == 3
MaxQty == 2

\* --------------------------------------------------------------- constants
MsPerMinute == 60000

VARIABLES
  jobs,            \* result of prisma.job.findMany (ordered by createdAt)
  tz,              \* offset of the server's local time from UTC, in ms
  pc,              \* position in the handler
  jobGroups,       \* insertion-ordered map key -> array of jobs
  gi,              \* number of groups Object.values(...).forEach has entered
  onJobs, offJobs, \* the current group's ON / OFF jobs with `remaining`
  onIdx, offIdx,   \* the two pointers (0-based, as in the code)
  allRows,         \* rows pushed by the pairing and leftover loops
  rowSrc,          \* history: for each row of allRows, the events it came from
  iters,           \* history: iterations of the while loop for the current group
  broke,           \* history: the loop's defensive break was taken
  ri,              \* number of rows of allRows the merge loop has consumed
  groupedRowsObj,  \* insertion-ordered map groupKey -> merged row
  sheet,           \* data rows added to the worksheet
  sheetKind,       \* history: which branch wrote each row of sheet
  addedRows,
  totalQuantity

vars == <<jobs, tz, pc, jobGroups, gi, onJobs, offJobs, onIdx, offIdx, allRows,
          rowSrc, iters, broke, ri, groupedRowsObj, sheet, sheetKind,
          addedRows, totalQuantity>>

\* ----------------------------------------------------------------- strings
DigitChars == <<"0", "1", "2", "3", "4", "5", "6", "7", "8", "9">>

IsDigit(c) == \E d \in 1..10 : DigitChars[d] = c

RECURSIVE NatToStr(_)
NatToStr(n) ==
  IF n < 10 THEN <<DigitChars[n + 1]>>
  ELSE NatToStr(n \div 10) \o <<DigitChars[(n % 10) + 1]>>

\* String(n) for an integer n
NumToStr(n) == IF n < 0 THEN <<"-">> \o NatToStr(0 - n) ELSE NatToStr(n)

\* n.toString().padStart(2, '0')
Pad2(n) == IF n < 10 THEN <<"0">> \o NatToStr(n) ELSE NatToStr(n)

\* a value that is either a number or the empty string ''
Num(n) == [isNum |-> TRUE, num |-> n]
EmptyStr == [isNum |-> FALSE, num |-> 0]
ValToStr(v) == IF v.isNum THEN NumToStr(v.num) ELSE <<>>

RECURSIVE Join(_)
\* Array.prototype.join('|') of an array of strings
Join(parts) ==
  IF Len(parts) = 0 THEN <<>>
  ELSE IF Len(parts) = 1 THEN parts[1]
  ELSE parts[1] \o <<"|">> \o Join(Tail(parts))

RECURSIVE DigitRun(_, _)
\* the maximal run of digits of s that starts at position i
DigitRun(s, i) ==
  IF i > Len(s) \/ ~IsDigit(s[i]) THEN <<>>
  ELSE <<s[i]>> \o DigitRun(s, i + 1)

RECURSIVE TrailingDigits(_)
TrailingDigits(s) ==
  IF Len(s) = 0 \/ ~IsDigit(s[Len(s)]) THEN <<>>
  ELSE TrailingDigits(SubSeq(s, 1, Len(s) - 1)) \o <<s[Len(s)]>>

\* getMachineNumber; a missing name is passed as [ok |-> FALSE, ...]
getMachineNumber(machine) ==
  IF ~machine.ok \/ Len(machine.name) = 0 THEN <<>>
  ELSE LET s == machine.name
           hashes == {i \in 1..(Len(s) - 1) : s[i] = "#" /\ IsDigit(s[i + 1])}
       IN IF hashes # {}
          THEN DigitRun(s, (CHOOSE i \in hashes : \A k \in hashes : i <= k) + 1)
          ELSE TrailingDigits(s)

\* ------------------------------------------------------------------- dates
NoTime == 0 - 1

\* date.setSeconds(0, 0): local time and UTC differ by whole minutes
TruncMinute(t) == t - ((t + tz) % MsPerMinute)

getHours(t) == ((t + tz) \div (60 * MsPerMinute)) % 24
getMinutes(t) == ((t + tz) \div MsPerMinute) % 60

\* `${getHours pad 2}:${getMinutes pad 2}`
HHMM(t) == Pad2(getHours(t)) \o <<":">> \o Pad2(getMinutes(t))

\* toISOString().split('T')[0]: the UTC calendar day, an injective function
\* of the day number, written here as "d<day number>"
IsoDate(t) == <<"d">> \o NatToStr(t \div (24 * 60 * MsPerMinute))

\* Math.round(x / 60000): round half up
RoundMinutes(x) == (2 * x + MsPerMinute) \div (2 * MsPerMinute)


\* ------------------------------------------------------------------ inputs
Rel(name) == [ok |-> TRUE, name |-> name]
NoRel == [ok |-> FALSE, name |-> <<>>]

\* (product, machine) of a fetched job: the related rows as `include` loads
\* them. Two products share the name "A"; one product has an empty name;
\* the machine names exercise the three outcomes of getMachineNumber.
GroupChoices ==
  { [productId |-> 1,  product |-> Rel(<<"A">>),
     machineId |-> 12, machine |-> Rel(<<"L", "#", "7", "a">>)],
    [productId |-> 11, product |-> Rel(<<"A">>),
     machineId |-> 2,  machine |-> Rel(<<"X", "7">>)],
    [productId |-> 2,  product |-> Rel(<<>>),
     machineId |-> 3,  machine |-> Rel(<<"#", "x">>)],
    [productId |-> 1,  product |-> NoRel,
     machineId |-> 12, machine |-> Rel(<<"L", "#", "7", "a">>)],
    [productId |-> 0,  product |-> NoRel,
     machineId |-> 0,  machine |-> NoRel] }

MainChoice == CHOOSE c \in GroupChoices : c.productId = 1 /\ c.product.ok

States == {"ON", "OFF"}

Times == {0, MsPerMinute \div 2, MsPerMinute, 24 * 60 * MsPerMinute}

TzOffsets == {0, 330 * MsPerMinute}

MkJob(i, c, st, q, created, updated) ==
  [id |-> i, productId |-> c.productId, machineId |-> c.machineId,
   product |-> c.product, machine |-> c.machine, state |-> st,
   quantity |-> q, createdAt |-> created, updatedAt |-> updated]

\* one group, quantities vary, one job per minute, up to MaxJobs + 1 jobs:
\* the first k are ON jobs and the others OFF jobs
QtyBatches ==
  UNION { { [i \in 1..n |-> MkJob(i, MainChoice,
                                  IF i <= k THEN "ON" ELSE "OFF", f[i],
                                  (i - 1) * MsPerMinute, NoTime)] :
            f \in [1..n -> 0..MaxQty], k \in 0..n } :
          n \in 0..(MaxJobs + 1) }

\* one group, instants vary; findMany orders the jobs by createdAt
TimeBatches ==
  UNION { { [i \in 1..n |-> MkJob(i, MainChoice, f[i].state, 1, f[i].at,
                                  IF f[i].upd THEN f[i].at + MsPerMinute
                                  ELSE NoTime)] :
            f \in { g \in [1..n -> [state : States, at : Times, upd : BOOLEAN]] :
                    /\ \A i \in 1..(n - 1) : g[i].at <= g[i + 1].at
                    /\ \A i \in 1..n : g[i].state = "ON" => ~g[i].upd } } :
          n \in 1..MaxJobs }

\* several groups and missing relations; two jobs per minute; the jobs of
\* the two products named "A" are ON or OFF jobs, the others ON jobs
GroupShapes ==
  {sh \in [c : GroupChoices, state : States] :
     sh.state = "OFF" => (sh.c.product.ok /\ Len(sh.c.product.name) > 0)}

GroupBatches ==
  UNION { { [i \in 1..n |-> MkJob(i, f[i].c, f[i].state, 1,
                                  ((i - 1) \div 2) * MsPerMinute, NoTime)] :
            f \in [1..n -> GroupShapes] } :
          n \in 1..MaxJobs }

Init ==
  /\ \/ jobs \in QtyBatches /\ tz = 0
     \/ jobs \in TimeBatches /\ tz \in TzOffsets
     \/ jobs \in GroupBatches /\ tz = 0
  /\ pc = "group"
  /\ jobGroups = <<>>
  /\ gi = 0
  /\ onJobs = <<>> /\ offJobs = <<>>
  /\ onIdx = 0 /\ offIdx = 0
  /\ allRows = <<>> /\ rowSrc = <<>>
  /\ iters = 0 /\ broke = FALSE
  /\ ri = 0
  /\ groupedRowsObj = <<>>
  /\ sheet = <<>> /\ sheetKind = <<>>
  /\ addedRows = 0
  /\ totalQuantity = 0

\* ----------------------------------------------------------------- grouper
\* `${job.productId}__${job.machineId}`
JobKey_NoSeparator(job) == NatToStr(job.productId) \o NatToStr(job.machineId)

JobKey(job) == NatToStr(job.productId) \o <<"_", "_">> \o NatToStr(job.machineId)

\* the callback of jobs.forEach
AddToGroups(groups, job) ==
  IF ~job.product.ok \/ ~job.machine.ok THEN groups
  ELSE LET key == JobKey(job)
           hit == {g \in 1..Len(groups) : groups[g].key = key}
       IN IF hit = {}
          THEN Append(groups, [key |-> key, group |-> <<job>>])
          ELSE [g \in 1..Len(groups) |->
                  IF g \in hit
                  THEN [groups[g] EXCEPT !.group = Append(@, job)]
                  ELSE groups[g]]

RECURSIVE GroupFold(_, _)
GroupFold(js, groups) ==
  IF Len(js) = 0 THEN groups
  ELSE GroupFold(Tail(js), AddToGroups(groups, Head(js)))

GroupJobs ==
  /\ pc = "group"
  /\ jobGroups' = GroupFold(jobs, <<>>)
  /\ pc' = "groups"
  /\ UNCHANGED <<jobs, tz, gi, onJobs, offJobs, onIdx, offIdx, allRows, rowSrc,
                 iters, broke, ri, groupedRowsObj, sheet, sheetKind, addedRows,
                 totalQuantity>>

\* ------------------------------------------------------------------- sort
RECURSIVE InsertStable(_, _)
\* job goes after every element the comparator does not order after it
InsertStable(sorted, job) ==
  IF Len(sorted) = 0 THEN <<job>>
  ELSE IF Head(sorted).createdAt - job.createdAt <= 0
       THEN <<Head(sorted)>> \o InsertStable(Tail(sorted), job)
       ELSE <<job>> \o sorted

RECURSIVE SortByCreatedAt(_)
\* group.sort((a, b) => a.createdAt - b.createdAt): a stable sort
SortByCreatedAt(group) ==
  IF Len(group) = 0 THEN <<>>
  ELSE InsertStable(SortByCreatedAt(SubSeq(group, 1, Len(group) - 1)),
                    group[Len(group)])

RECURSIVE Filter(_, _)
Filter(group, st) ==
  IF Len(group) = 0 THEN <<>>
  ELSE IF Head(group).state = st
       THEN <<Head(group)>> \o Filter(Tail(group), st)
       ELSE Filter(Tail(group), st)

\* {...j, remaining: j.quantity}
WithRemaining(j) ==
  [f \in DOMAIN j \cup {"remaining"} |->
     IF f = "remaining" THEN j.quantity ELSE j[f]]

OnJobsOf_NoFilter(group) ==
  [i \in 1..Len(group) |-> WithRemaining(group[i])]

OnJobsOf(group) ==
  LET on == Filter(group, "ON") IN [i \in 1..Len(on) |-> WithRemaining(on[i])]

OffJobsOf(group) ==
  LET off == Filter(group, "OFF") IN [i \in 1..Len(off) |-> WithRemaining(off[i])]

\* entry of the callback of Object.values(jobGroups).forEach
StartGroup ==
  /\ pc = "groups"
  /\ gi < Len(jobGroups)
  /\ LET sorted == SortByCreatedAt(jobGroups[gi + 1].group)
     IN /\ jobGroups' = [jobGroups EXCEPT ![gi + 1].group = sorted]
        /\ onJobs' = OnJobsOf(sorted)
        /\ offJobs' = OffJobsOf(sorted)
  /\ gi' = gi + 1
  /\ onIdx' = 0 /\ offIdx' = 0
  /\ iters' = 0 /\ broke' = FALSE
  /\ pc' = "pair"
  /\ UNCHANGED <<jobs, tz, allRows, rowSrc, ri, groupedRowsObj, sheet,
                 sheetKind, addedRows, totalQuantity>>


\* -------------------------------------------------------------- reconciler
Min(a, b) == IF a <= b THEN a ELSE b

PairQty_Unit(onRemaining, offRemaining) ==
  IF onRemaining > 0 /\ offRemaining > 0 THEN 1 ELSE 0

PairQty_Max(onRemaining, offRemaining) ==
  IF onRemaining >= offRemaining THEN onRemaining ELSE offRemaining

\* Math.min(onJob.remaining, offJob.remaining)
PairQty(onRemaining, offRemaining) == Min(onRemaining, offRemaining)

Advance_Swapped(onRemaining, offRemaining) ==
  IF onRemaining = 0 /\ offRemaining = 0 THEN [on |-> 1, off |-> 1, brk |-> FALSE]
  ELSE IF onRemaining = 0 THEN [on |-> 0, off |-> 1, brk |-> FALSE]
  ELSE IF offRemaining = 0 THEN [on |-> 1, off |-> 0, brk |-> FALSE]
  ELSE [on |-> 0, off |-> 0, brk |-> TRUE]

Advance_Both(onRemaining, offRemaining) ==
  IF onRemaining = 0 \/ offRemaining = 0 THEN [on |-> 1, off |-> 1, brk |-> FALSE]
  ELSE [on |-> 0, off |-> 0, brk |-> TRUE]

\* the if / else-if chain that ends an iteration of the while loop
Advance(onRemaining, offRemaining) ==
  IF onRemaining = 0 /\ offRemaining = 0 THEN [on |-> 1, off |-> 1, brk |-> FALSE]
  ELSE IF onRemaining = 0 THEN [on |-> 1, off |-> 0, brk |-> FALSE]
  ELSE IF offRemaining = 0 THEN [on |-> 0, off |-> 1, brk |-> FALSE]
  ELSE [on |-> 0, off |-> 0, brk |-> TRUE]

\* onJob.product.name || onJob.productId
ProductLabel(job) ==
  IF Len(job.product.name) > 0 THEN job.product.name
  ELSE NatToStr(job.productId)

\* offJob.updatedAt || offJob.createdAt
CloseTime(offJob) ==
  IF offJob.updatedAt # NoTime /\ offJob.updatedAt # 0 THEN offJob.updatedAt
  ELSE offJob.createdAt

TotalTime_Abs(onTime, offTime) ==
  LET totalTime == RoundMinutes(offTime - onTime)
  IN IF totalTime = 0 THEN EmptyStr
     ELSE IF totalTime < 0 THEN Num(0 - totalTime) ELSE Num(totalTime)

\* Math.round((offTime - onTime) / 60000), then `totalTime ? totalTime : ''`
TotalTime(onTime, offTime) ==
  LET totalTime == RoundMinutes(offTime - onTime)
  IN IF totalTime # 0 THEN Num(totalTime) ELSE EmptyStr

\* the row pushed for a pair
MatchedRow(onJob, offJob, pairQty) ==
  LET onTime == TruncMinute(onJob.createdAt)
      offTime == TruncMinute(CloseTime(offJob))
  IN [productId |-> ProductLabel(onJob),
      quantity |-> pairQty,
      machineNumber |-> getMachineNumber(onJob.machine),
      date |-> IsoDate(onTime),
      onTime |-> HHMM(onTime),
      offTime |-> HHMM(offTime),
      totalTime |-> TotalTime(onTime, offTime)]

\* the row pushed for an ON job that still has quantity left
UnmatchedRow(onJob) ==
  LET onTime == TruncMinute(onJob.createdAt)
  IN [productId |-> ProductLabel(onJob),
      quantity |-> onJob.remaining,
      machineNumber |-> getMachineNumber(onJob.machine),
      date |-> IsoDate(onTime),
      onTime |-> HHMM(onTime),
      offTime |-> <<>>,
      totalTime |-> EmptyStr]

\* one iteration of the while loop
PairStep ==
  /\ pc = "pair"
  /\ ~broke
  /\ onIdx < Len(onJobs) /\ offIdx < Len(offJobs)
  /\ LET onJob == onJobs[onIdx + 1]
         offJob == offJobs[offIdx + 1]
         pairQty == PairQty(onJob.remaining, offJob.remaining)
         onRem == IF pairQty > 0 THEN onJob.remaining - pairQty ELSE onJob.remaining
         offRem == IF pairQty > 0 THEN offJob.remaining - pairQty ELSE offJob.remaining
         adv == Advance(onRem, offRem)
     IN /\ allRows' = IF pairQty > 0
                      THEN Append(allRows, MatchedRow(onJob, offJob, pairQty))
                      ELSE allRows
        /\ rowSrc' = IF pairQty > 0
                     THEN Append(rowSrc, [g |-> gi, on |-> onJob.id, off |-> offJob.id,
                                          onPos |-> onIdx + 1, offPos |-> offIdx + 1])
                     ELSE rowSrc
        /\ onJobs' = [onJobs EXCEPT ![onIdx + 1].remaining = onRem]
        /\ offJobs' = [offJobs EXCEPT ![offIdx + 1].remaining = offRem]
        /\ onIdx' = onIdx + adv.on
        /\ offIdx' = offIdx + adv.off
        /\ broke' = adv.brk
  /\ iters' = iters + 1
  /\ UNCHANGED <<jobs, tz, pc, jobGroups, gi, ri, groupedRowsObj, sheet,
                 sheetKind, addedRows, totalQuantity>>

\* the while condition fails, or the break was taken
PairExit ==
  /\ pc = "pair"
  /\ broke \/ ~(onIdx < Len(onJobs) /\ offIdx < Len(offJobs))
  /\ pc' = "leftover"
  /\ UNCHANGED <<jobs, tz, jobGroups, gi, onJobs, offJobs, onIdx, offIdx,
                 allRows, rowSrc, iters, broke, ri, groupedRowsObj, sheet,
                 sheetKind, addedRows, totalQuantity>>

\* one iteration of `for (; onIdx < onJobs.length; onIdx++)`
LeftoverStep ==
  /\ pc = "leftover"
  /\ onIdx < Len(onJobs)
  /\ LET onJob == onJobs[onIdx + 1]
     IN /\ allRows' = IF onJob.remaining > 0
                      THEN Append(allRows, UnmatchedRow(onJob))
                      ELSE allRows
        /\ rowSrc' = IF onJob.remaining > 0
                     THEN Append(rowSrc, [g |-> gi, on |-> onJob.id, off |-> 0,
                                          onPos |-> onIdx + 1, offPos |-> 0])
                     ELSE rowSrc
  /\ onIdx' = onIdx + 1
  /\ UNCHANGED <<jobs, tz, pc, jobGroups, gi, onJobs, offJobs, offIdx, iters,
                 broke, ri, groupedRowsObj, sheet, sheetKind, addedRows,
                 totalQuantity>>

\* the for loop ends: the callback returns
EndGroup ==
  /\ pc = "leftover"
  /\ onIdx >= Len(onJobs)
  /\ pc' = "groups"
  /\ UNCHANGED <<jobs, tz, jobGroups, gi, onJobs, offJobs, onIdx, offIdx,
                 allRows, rowSrc, iters, broke, ri, groupedRowsObj, sheet,
                 sheetKind, addedRows, totalQuantity>>

\* -------------------------------------------------------------- aggregator
GroupKey_NoOffTime(row) ==
  Join(<<row.productId, row.machineNumber, row.date, row.onTime,
         ValToStr(row.totalTime)>>)

\* [productId, machineNumber, date, onTime, offTime, totalTime].join('|')
GroupKey(row) ==
  Join(<<row.productId, row.machineNumber, row.date, row.onTime, row.offTime,
         ValToStr(row.totalTime)>>)

\* the forEach over the groups is over: the merge loop starts
StartMerge ==
  /\ pc = "groups"
  /\ gi >= Len(jobGroups)
  /\ pc' = "merge"
  /\ UNCHANGED <<jobs, tz, jobGroups, gi, onJobs, offJobs, onIdx, offIdx,
                 allRows, rowSrc, iters, broke, ri, groupedRowsObj, sheet,
                 sheetKind, addedRows, totalQuantity>>

\* one iteration of `for (const row of allRows)`
MergeRow ==
  /\ pc = "merge"
  /\ ri < Len(allRows)
  /\ LET row == allRows[ri + 1]
         groupKey == GroupKey(row)
         hit == {k \in 1..Len(groupedRowsObj) : groupedRowsObj[k].key = groupKey}
     IN groupedRowsObj' =
          IF hit = {}
          THEN Append(groupedRowsObj, [key |-> groupKey, row |-> row])
          ELSE [k \in 1..Len(groupedRowsObj) |->
                  IF k \in hit
                  THEN [groupedRowsObj[k] EXCEPT !.row.quantity = @ + row.quantity]
                  ELSE groupedRowsObj[k]]
  /\ ri' = ri + 1
  /\ UNCHANGED <<jobs, tz, pc, jobGroups, gi, onJobs, offJobs, onIdx, offIdx,
                 allRows, rowSrc, iters, broke, sheet, sheetKind, addedRows,
                 totalQuantity>>

FallbackNeeded_JobsOnly(added, jobCount) == jobCount > 0

\* addedRows === 0 && jobs.length > 0
FallbackNeeded(added, jobCount) == added = 0 /\ jobCount > 0

\* (job.product && job.product.name) || job.productId || 'Unknown'
FallbackLabel(job) ==
  IF job.product.ok /\ Len(job.product.name) > 0 THEN job.product.name
  ELSE IF job.productId # 0 THEN NatToStr(job.productId)
  ELSE <<"U", "n", "k", "n", "o", "w", "n">>

\* the row added for a job when no merged row exists
FallbackRow(job) ==
  [productId |-> FallbackLabel(job),
   quantity |-> IF job.quantity # 0 THEN job.quantity ELSE 1,
   machineNumber |-> getMachineNumber(job.machine),
   date |-> IsoDate(job.createdAt),
   onTime |-> HHMM(job.createdAt),
   offTime |-> IF job.updatedAt # NoTime /\ job.updatedAt # 0
               THEN HHMM(job.updatedAt) ELSE <<>>,
   totalTime |-> EmptyStr]

\* { productId: 'No data found for the selected criteria.' }: the other
\* cells are not set
PlaceholderRow ==
  [productId |-> <<"N", "o", " ", "d", "a", "t", "a">>,
   quantity |-> 0, machineNumber |-> <<>>, date |-> <<>>, onTime |-> <<>>,
   offTime |-> <<>>, totalTime |-> EmptyStr]

\* the merge loop is over: merged rows, fallback rows or the placeholder
WriteRows ==
  /\ pc = "merge"
  /\ ri >= Len(allRows)
  /\ LET merged == [k \in 1..Len(groupedRowsObj) |-> groupedRowsObj[k].row]
         added1 == Len(merged)
         fallback == FallbackNeeded(added1, Len(jobs))
         sheet2 == IF fallback
                   THEN merged \o [k \in 1..Len(jobs) |-> FallbackRow(jobs[k])]
                   ELSE merged
         kind2 == [k \in 1..Len(sheet2) |->
                     IF k <= added1 THEN "merged" ELSE "fallback"]
         added2 == IF fallback THEN Len(jobs) ELSE added1
     IN /\ sheet' = IF added2 = 0 THEN Append(sheet2, PlaceholderRow) ELSE sheet2
        /\ sheetKind' = IF added2 = 0 THEN Append(kind2, "placeholder") ELSE kind2
        /\ addedRows' = added2
  /\ pc' = "total"
  /\ UNCHANGED <<jobs, tz, jobGroups, gi, onJobs, offJobs, onIdx, offIdx,
                 allRows, rowSrc, iters, broke, ri, groupedRowsObj,
                 totalQuantity>>

RECURSIVE SumQuantity(_)
\* reduce((sum, row) => sum + row.quantity, 0)
SumQuantity(rows) ==
  IF Len(rows) = 0 THEN 0 ELSE rows[1].quantity + SumQuantity(Tail(rows))

\* Object.values(groupedRowsObj).reduce(...) for the summary row
Summary ==
  /\ pc = "total"
  /\ totalQuantity' =
       SumQuantity([k \in 1..Len(groupedRowsObj) |-> groupedRowsObj[k].row])
  /\ pc' = "done"
  /\ UNCHANGED <<jobs, tz, jobGroups, gi, onJobs, offJobs, onIdx, offIdx,
                 allRows, rowSrc, iters, broke, ri, groupedRowsObj, sheet,
                 sheetKind, addedRows>>

Next ==
  \/ GroupJobs
  \/ StartGroup
  \/ PairStep
  \/ PairExit
  \/ LeftoverStep
  \/ EndGroup
  \/ StartMerge
  \/ MergeRow
  \/ WriteRows
  \/ Summary

Spec == Init /\ [][Next]_vars


\* ------------------------------------------------------------- properties
RECURSIVE QtyOver(_, _)
\* the sum of quantity over the positions S of a sequence of rows or jobs
QtyOver(rows, S) ==
  IF S = {} THEN 0
  ELSE LET k == CHOOSE x \in S : TRUE
       IN rows[k].quantity + QtyOver(rows, S \ {k})

AllQty(rows) == QtyOver(rows, 1..Len(rows))

\* the callback of group g has returned
GroupFinished(g) == g < gi \/ (g = gi /\ pc \notin {"pair", "leftover"})

RowsOf(g) == {k \in 1..Len(allRows) : rowSrc[k].g = g}
RowsWithOff(g) == {k \in RowsOf(g) : Len(allRows[k].offTime) > 0}
RowsWithoutOff(g) == {k \in RowsOf(g) : Len(allRows[k].offTime) = 0}

StateQty(g, st) ==
  LET group == jobGroups[g].group
  IN QtyOver(group, {p \in 1..Len(group) : group[p].state = st})

\* C1. Quantity conservation: once the pairing loop and the leftover loop of
\* a group have finished, the quantities of the rows pushed for the group
\* (matched and unmatched-ON) sum to the quantities of the group's ON events,
\* whatever the OFF events are.
C1_QuantityConservation ==
  \A g \in 1..Len(jobGroups) :
    GroupFinished(g) => QtyOver(allRows, RowsOf(g)) = StateQty(g, "ON")

\* a finished group with two matched rows, an unmatched-ON row and an OFF
\* event of quantity 0
C1_Witness ==
  \E g \in 1..Len(jobGroups) :
    /\ GroupFinished(g)
    /\ Cardinality(RowsWithOff(g)) >= 2
    /\ RowsWithoutOff(g) # {}
    /\ \E p \in 1..Len(jobGroups[g].group) :
         jobGroups[g].group[p].state = "OFF" /\ jobGroups[g].group[p].quantity = 0

\* quantity of the matched rows of the current group drawn from ON event id
PairedFromOn(id) ==
  QtyOver(allRows, {k \in RowsOf(gi) : rowSrc[k].on = id /\ rowSrc[k].off # 0})
PairedFromOff(id) ==
  QtyOver(allRows, {k \in RowsOf(gi) : rowSrc[k].off = id})

\* C2. No double counting: at every point of the reconciliation of a group,
\* for each source event the quantity paired into rows plus its remaining
\* counter is its original quantity and remaining is never negative; at the
\* end the rows drawn from an ON event sum to its quantity and the rows
\* drawn from an OFF event sum to at most its quantity.
C2_NoDoubleCounting ==
  /\ \A i \in 1..Len(onJobs) :
       /\ onJobs[i].remaining >= 0
       /\ PairedFromOn(onJobs[i].id) + onJobs[i].remaining = onJobs[i].quantity
       /\ onJobs[i].quantity = jobs[onJobs[i].id].quantity
  /\ \A j \in 1..Len(offJobs) :
       /\ offJobs[j].remaining >= 0
       /\ PairedFromOff(offJobs[j].id) + offJobs[j].remaining = offJobs[j].quantity
       /\ offJobs[j].quantity = jobs[offJobs[j].id].quantity
  /\ \A g \in 1..Len(jobGroups) :
       GroupFinished(g) =>
         \A p \in 1..Len(jobGroups[g].group) :
           LET job == jobGroups[g].group[p]
           IN IF job.state = "ON"
              THEN QtyOver(allRows, {k \in 1..Len(allRows) : rowSrc[k].on = job.id})
                     = job.quantity
              ELSE QtyOver(allRows, {k \in 1..Len(allRows) : rowSrc[k].off = job.id})
                     <= job.quantity

\* a finished group where an ON event is split over two rows and an OFF
\* event keeps a surplus
C2_Witness ==
  \E g \in 1..Len(jobGroups) :
    /\ GroupFinished(g)
    /\ \E k1, k2 \in RowsOf(g) : k1 # k2 /\ rowSrc[k1].on = rowSrc[k2].on
    /\ \E p \in 1..Len(jobGroups[g].group) :
         LET job == jobGroups[g].group[p]
         IN /\ job.state = "OFF"
            /\ 0 < QtyOver(allRows, {k \in 1..Len(allRows) : rowSrc[k].off = job.id})
            /\ QtyOver(allRows, {k \in 1..Len(allRows) : rowSrc[k].off = job.id})
                 < job.quantity

\* the job a fallback row of the sheet was written for
SheetJob(k) == jobs[k - Cardinality({m \in 1..Len(sheet) : sheetKind[m] = "merged"})]

RowFromOn(k) ==
  /\ rowSrc[k].on \in 1..Len(jobs)
  /\ jobs[rowSrc[k].on].state = "ON"
  /\ allRows[k].quantity <= jobs[rowSrc[k].on].quantity
  /\ rowSrc[k].off # 0 =>
       /\ jobs[rowSrc[k].off].state = "OFF"
       /\ allRows[k].quantity <= jobs[rowSrc[k].off].quantity

\* C3 as stated. For any input batch, every data row written to the report
\* derives from an ON event and none is written for an OFF event's unmatched
\* quantity.
C3_Original ==
  /\ \A k \in 1..Len(allRows) : RowFromOn(k)
  /\ \A k \in 1..Len(sheet) :
       /\ sheetKind[k] = "merged" =>
            \E r \in 1..Len(allRows) : GroupKey(allRows[r]) = GroupKey(sheet[k])
       /\ sheetKind[k] = "fallback" => SheetJob(k).state = "ON"

\* C3 as amended. The pairing and leftover loops never push a row for an OFF
\* event's unmatched quantity: every row of allRows, and so every merged row
\* written, draws its quantity from an ON event. Rows for OFF events are
\* written only by the fallback, which runs exactly when no merged row
\* exists and a job was fetched, and then writes one row for every job,
\* OFF jobs included.
C3_Amended ==
  /\ \A k \in 1..Len(allRows) : RowFromOn(k)
  /\ \A k \in 1..Len(sheet) :
       /\ sheetKind[k] = "merged" =>
            \E r \in 1..Len(allRows) : GroupKey(allRows[r]) = GroupKey(sheet[k])
       /\ sheetKind[k] = "fallback" =>
            /\ groupedRowsObj = <<>>
            /\ Len(sheet) = Len(jobs)
            /\ sheet[k] = FallbackRow(jobs[k])
  /\ (pc \in {"total", "done"} /\ groupedRowsObj # <<>>) =>
       \A k \in 1..Len(sheet) : sheetKind[k] = "merged"

\* the report is written from merged rows while an OFF event of a finished
\* group has quantity that no row accounts for
C3_Witness ==
  /\ pc = "done"
  /\ groupedRowsObj # <<>>
  /\ \E i \in 1..Len(jobs) :
       /\ jobs[i].state = "OFF"
       /\ jobs[i].product.ok /\ jobs[i].machine.ok
       /\ QtyOver(allRows, {k \in 1..Len(allRows) : rowSrc[k].off = i})
            < jobs[i].quantity

Tuple(row) ==
  <<row.productId, row.machineNumber, row.date, row.onTime, row.offTime,
    row.totalTime>>

FirstSeen(t) ==
  CHOOSE k \in 1..Len(allRows) :
    /\ Tuple(allRows[k]) = t
    /\ \A m \in 1..(k - 1) : Tuple(allRows[m]) # t

\* C4. Aggregation correctness: after the merge the map holds exactly one
\* row per distinct tuple (productId, machineNumber, date, onTime, offTime,
\* totalTime) of the input rows, with the sum of the quantities of the input
\* rows of that tuple; rows that differ in a field are not merged; the
\* merged rows are written in first-seen order; the grand total is the sum
\* of quantity over the input rows.
C4_Aggregation ==
  pc \in {"total", "done"} =>
    /\ \A r \in 1..Len(allRows) :
         \E k \in 1..Len(groupedRowsObj) :
           /\ Tuple(groupedRowsObj[k].row) = Tuple(allRows[r])
           /\ \A m \in 1..Len(groupedRowsObj) :
                Tuple(groupedRowsObj[m].row) = Tuple(allRows[r]) => m = k
    /\ \A k \in 1..Len(groupedRowsObj) :
         LET t == Tuple(groupedRowsObj[k].row)
             same == {r \in 1..Len(allRows) : Tuple(allRows[r]) = t}
         IN /\ same # {}
            /\ groupedRowsObj[k].row.quantity = QtyOver(allRows, same)
            /\ \A m \in 1..(k - 1) :
                 FirstSeen(Tuple(groupedRowsObj[m].row)) < FirstSeen(t)
    /\ groupedRowsObj # <<>> =>
         sheet = [k \in 1..Len(groupedRowsObj) |-> groupedRowsObj[k].row]
    /\ pc = "done" => totalQuantity = AllQty(allRows)

\* rows of two different groups were merged into one row and a row with
\* another tuple was kept apart
C4_Witness ==
  /\ pc = "done"
  /\ Len(groupedRowsObj) >= 2
  /\ Len(groupedRowsObj) < Len(allRows)
  /\ \E r1, r2 \in 1..Len(allRows) :
       /\ rowSrc[r1].g # rowSrc[r2].g
       /\ Tuple(allRows[r1]) = Tuple(allRows[r2])

\* C5. Empty-result fallback: exactly one of three outputs is written. With
\* a non-empty merged set only the merged rows; with an empty merged set and
\* at least one fetched job exactly one fallback row per job; with no job
\* exactly one placeholder row.
C5_Fallback ==
  pc \in {"total", "done"} =>
    IF groupedRowsObj # <<>>
    THEN /\ Len(sheet) = Len(groupedRowsObj)
         /\ \A k \in 1..Len(sheet) :
              sheetKind[k] = "merged" /\ sheet[k] = groupedRowsObj[k].row
         /\ addedRows = Len(groupedRowsObj)
    ELSE IF Len(jobs) > 0
    THEN /\ Len(sheet) = Len(jobs)
         /\ \A k \in 1..Len(sheet) :
              sheetKind[k] = "fallback" /\ sheet[k] = FallbackRow(jobs[k])
         /\ addedRows = Len(jobs)
    ELSE /\ sheet = <<PlaceholderRow>>
         /\ sheetKind = <<"placeholder">>
         /\ addedRows = 0

\* several jobs were fetched, each lacks its product or machine, and the
\* fallback rows are written
C5_Witness ==
  /\ pc = "done"
  /\ Len(jobs) >= 2
  /\ \A i \in 1..Len(jobs) : ~jobs[i].product.ok \/ ~jobs[i].machine.ok
  /\ \E i, k \in 1..Len(jobs) : jobs[i].machine.ok /\ ~jobs[k].machine.ok
  /\ Len(sheet) = Len(jobs)
  /\ \A k \in 1..Len(sheet) : sheetKind[k] = "fallback"


\* the first position of js with quantity left, 0 when there is none
FirstWithRemaining(js) ==
  IF \E i \in 1..Len(js) : js[i].remaining > 0
  THEN CHOOSE i \in 1..Len(js) :
         /\ js[i].remaining > 0
         /\ \A k \in 1..(i - 1) : js[k].remaining <= 0
  ELSE 0

\* C6. FIFO pairing: every matched row is drawn from the earliest ON event
\* with quantity left and the earliest OFF event with quantity left (every
\* earlier ON and OFF event of the group has remaining 0), and the matched
\* rows of a group are pushed with non-decreasing ON and OFF positions.
C6_FIFO ==
  [][(pc = "pair" /\ Len(allRows') = Len(allRows) + 1) =>
       LET s == rowSrc'[Len(rowSrc')]
       IN /\ s.g = gi
          /\ s.onPos = FirstWithRemaining(onJobs)
          /\ s.offPos = FirstWithRemaining(offJobs)
          /\ s.on = onJobs[s.onPos].id /\ s.off = offJobs[s.offPos].id
          /\ \A k \in 1..(s.onPos - 1) : onJobs[k].remaining = 0
          /\ \A k \in 1..(s.offPos - 1) : offJobs[k].remaining = 0
          /\ \A k \in RowsOf(gi) :
               rowSrc[k].onPos <= s.onPos /\ rowSrc[k].offPos <= s.offPos]_vars

\* a matched row drawn from the second ON event and the second OFF event
\* after rows of the first ON event and of the first OFF event
C6_Witness ==
  \E k, m \in RowsOf(gi) :
    /\ k < m
    /\ rowSrc[k].onPos = 1 /\ rowSrc[m].onPos = 2
    /\ rowSrc[k].offPos = 1 /\ rowSrc[m].offPos = 2

SameGroup(a, b) == a.productId = b.productId /\ a.machineId = b.machineId

Holders(id) ==
  {g \in 1..Len(jobGroups) :
     \E p \in 1..Len(jobGroups[g].group) : jobGroups[g].group[p].id = id}

\* C7. Grouper: every fetched job with a product and a machine is in exactly
\* one group, the group of its (productId, machineId); a job that lacks its
\* product or machine is in no group and leaves the groups of the other jobs
\* as they are; once a group is sorted its ON and its OFF subsequence ascend
\* in createdAt with equal createdAt kept in input order.
C7_Grouper ==
  pc # "group" =>
    /\ \A i \in 1..Len(jobs) :
         IF jobs[i].product.ok /\ jobs[i].machine.ok
         THEN /\ Cardinality(Holders(i)) = 1
              /\ \A k \in 1..Len(jobs) :
                   (jobs[k].product.ok /\ jobs[k].machine.ok) =>
                     (SameGroup(jobs[i], jobs[k]) <=> Holders(i) = Holders(k))
         ELSE Holders(i) = {}
    /\ \A g \in 1..Len(jobGroups) :
         LET group == jobGroups[g].group
         IN /\ Len(group) > 0
            /\ \A p \in 1..Len(group) :
                 /\ group[p].id \in 1..Len(jobs)
                 /\ group[p] = jobs[group[p].id]
                 /\ \A q \in 1..Len(group) : group[p].id = group[q].id => p = q
            /\ g <= gi =>
                 \A p, q \in 1..Len(group) :
                   (p < q /\ group[p].state = group[q].state) =>
                     \/ group[p].createdAt < group[q].createdAt
                     \/ /\ group[p].createdAt = group[q].createdAt
                        /\ group[p].id < group[q].id
    /\ gi >= 1 =>
         LET group == jobGroups[gi].group
             onPos == {p \in 1..Len(group) : group[p].state = "ON"}
             offPos == {p \in 1..Len(group) : group[p].state = "OFF"}
         IN /\ Len(onJobs) = Cardinality(onPos)
            /\ Len(offJobs) = Cardinality(offPos)
            /\ \A i \in 1..Len(onJobs) :
                 \E p \in onPos :
                   /\ group[p].id = onJobs[i].id
                   /\ Cardinality({q \in onPos : q < p}) = i - 1
            /\ \A j \in 1..Len(offJobs) :
                 \E p \in offPos :
                   /\ group[p].id = offJobs[j].id
                   /\ Cardinality({q \in offPos : q < p}) = j - 1

\* two groups whose keys differ only in where the separator falls, a job
\* dropped for its missing product, and all groups sorted
C7_Witness ==
  /\ pc = "done"
  /\ Len(jobGroups) >= 2
  /\ \E i, k \in 1..Len(jobs) :
       /\ ~jobs[i].product.ok
       /\ jobs[k].product.ok /\ jobs[k].machine.ok
       /\ jobs[i].productId = jobs[k].productId
       /\ jobs[i].machineId = jobs[k].machineId

\* C8. Pairing-loop progress: every iteration of the while loop leaves the
\* remaining of the current ON or of the current OFF event at zero and
\* advances onIdx, offIdx or both; the break branch is never taken; the
\* loop runs at most len(ON) + len(OFF) iterations and ends with
\* onIdx = len(ON) or offIdx = len(OFF).
C8_Progress ==
  [][/\ (pc = "pair" /\ iters' = iters + 1) =>
          /\ onJobs'[onIdx + 1].remaining = 0 \/ offJobs'[offIdx + 1].remaining = 0
          /\ onIdx' >= onIdx /\ offIdx' >= offIdx
          /\ onIdx' + offIdx' > onIdx + offIdx
          /\ ~broke'
          /\ iters' <= Len(onJobs) + Len(offJobs)
     /\ (pc = "pair" /\ pc' = "leftover") =>
          /\ ~broke
          /\ onIdx = Len(onJobs) \/ offIdx = Len(offJobs)]_vars

\* the loop of a group with two ON and two OFF events has ended after three
\* iterations
C8_Witness ==
  /\ pc = "leftover"
  /\ Len(onJobs) = 2 /\ Len(offJobs) = 2
  /\ iters = 3

\* C9. Matched total: for a finished group the quantities of the rows with
\* an OFF time sum to min(sum ON, sum OFF) and those of the unmatched-ON rows
\* to max(0, sum ON - sum OFF); an unmatched-ON row exists only when every
\* OFF event of the group has remaining 0.
C9_MatchedTotal ==
  /\ \A g \in 1..Len(jobGroups) :
       GroupFinished(g) =>
         LET sumOn == StateQty(g, "ON")
             sumOff == StateQty(g, "OFF")
         IN /\ QtyOver(allRows, RowsWithOff(g))
                 = IF sumOn <= sumOff THEN sumOn ELSE sumOff
            /\ QtyOver(allRows, RowsWithoutOff(g))
                 = IF sumOn <= sumOff THEN 0 ELSE sumOn - sumOff
  /\ gi >= 1 =>
       (RowsWithoutOff(gi) # {} =>
          \A j \in 1..Len(offJobs) : offJobs[j].remaining = 0)

\* a finished group with several ON and OFF events, more ON than OFF
\* quantity, a matched row and an unmatched-ON row
C9_Witness ==
  \E g \in 1..Len(jobGroups) :
    /\ GroupFinished(g)
    /\ StateQty(g, "OFF") >= 2
    /\ StateQty(g, "ON") > StateQty(g, "OFF")
    /\ RowsWithOff(g) # {} /\ RowsWithoutOff(g) # {}
    /\ Cardinality({p \in 1..Len(jobGroups[g].group) :
                      jobGroups[g].group[p].state = "OFF"}) >= 2

\* the minute an OFF event closes and the minute an ON event starts
CloseMinuteOf(off) ==
  LET c == IF off.updatedAt # NoTime THEN off.updatedAt ELSE off.createdAt
  IN c - ((c + tz) % 60000)
StartMinuteOf(on) == on.createdAt - ((on.createdAt + tz) % 60000)

\* C10 as stated. In every matched row the close minute of the OFF event is
\* not earlier than the start minute of the ON event, so totalTime is empty
\* or a positive number of minutes.
C10_Original ==
  \A k \in 1..Len(allRows) :
    rowSrc[k].off # 0 =>
      /\ CloseMinuteOf(jobs[rowSrc[k].off]) >= StartMinuteOf(jobs[rowSrc[k].on])
      /\ allRows[k].totalTime.isNum => allRows[k].totalTime.num > 0

\* C10 as amended. In every matched row totalTime is empty when the OFF
\* event closes in the minute the ON event starts and otherwise the signed
\* whole number of minutes from the ON minute to the OFF close minute:
\* positive when the OFF event closes later, negative when it closes in an
\* earlier minute, which the pairing by position does not exclude.
C10_Amended ==
  \A k \in 1..Len(allRows) :
    IF rowSrc[k].off # 0
    THEN LET d == CloseMinuteOf(jobs[rowSrc[k].off])
                    - StartMinuteOf(jobs[rowSrc[k].on])
         IN /\ d % 60000 = 0
            /\ allRows[k].totalTime =
                 IF d = 0 THEN [isNum |-> FALSE, num |-> 0]
                 ELSE [isNum |-> TRUE, num |-> d \div 60000]
    ELSE allRows[k].totalTime = [isNum |-> FALSE, num |-> 0]

\* a matched row whose OFF event closed before its ON event started
C10_Witness ==
  \E k \in 1..Len(allRows) :
    /\ rowSrc[k].off # 0
    /\ allRows[k].totalTime.isNum
    /\ allRows[k].totalTime.num < 0
    /\ jobs[rowSrc[k].off].updatedAt # NoTime

====
